---- MODULE Spec2Model ----
(***************************************************************************)
(* Model of src/services/pocketBase/pocketBase.ts: the conversion between  *)
(* native Date values and the space-separated RFC3339 strings stored by    *)
(* PocketBase (dateToRFC3339Parts, dateToRFC3339, rfc3339ToDate,           *)
(* assertRFC3339Date), with the typed errors they fail with.               *)
(*                                                                         *)
(* A Date value is a record [valid, day, ms]: day is Day(t), the number of *)
(* whole days since 1970-01-01 UTC, and ms is TimeWithinDay(t); the pair   *)
(* is in bijection with the tick count t = day * msPerDay + ms, which does *)
(* not fit the model checker's integers.  valid = FALSE is the Date whose  *)
(* tick count is NaN.  Strings are TLA+ strings.                           *)
(***************************************************************************)
EXTENDS Integers, Sequences, FiniteSets, TLC

VARIABLES
  tz,            \* local time zone offset of the host, in minutes east of UTC
  rollover,      \* host accepts a day-of-month past the month's end (rolls over)
  legacy,        \* what the host's fallback parser yields for unrecognised text
  op,            \* the function that was called last
  argDate,       \* its Date argument
  argString,     \* its string argument
  result,        \* the Effect it returned (or the throw)
  formattedDate, \* the string handed to the Date constructor ("" if none was)
  constructed,   \* the Date constructor was called
  serialized,    \* Date.prototype.toISOString was called
  formatterRan   \* dateToRFC3339 was called

vars == <<tz, rollover, legacy, op, argDate, argString, result,
          formattedDate, constructed, serialized, formatterRan>>

env == <<tz, rollover, legacy>>

----------------------------------------------------------------------------
(* Bounds of the model. *)

\* days on either side of every anchor date that are drawn as inputs
DayWindow == 1
\* the millisecond offsets 0..MsWindow after every anchor time of day
MsWindow == 1

----------------------------------------------------------------------------
(* The native calendar (ECMAScript Date: Day, TimeWithinDay, YearFromTime). *)

msPerDay == 86400000
msPerHour == 3600000
msPerMinute == 60000
msPerSecond == 1000
\* a Date holds at most 100,000,000 days on either side of the epoch
MaxDay == 100000000
DaysPer400Years == 146097

InvalidDate == [valid |-> FALSE, day |-> 0, ms |-> 0]

\* TimeClip: NaN outside +-8.64e15 ms
TimeClip(day, ms) ==
  IF (day >= -MaxDay /\ day < MaxDay) \/ (day = MaxDay /\ ms = 0)
  THEN [valid |-> TRUE, day |-> day, ms |-> ms]
  ELSE InvalidDate

\* isNaN(date.getTime())
isNaNTime(date) == ~date.valid

DayFromYear(y) ==
  365 * (y - 1970) + ((y - 1969) \div 4) - ((y - 1901) \div 100)
    + ((y - 1601) \div 400)

InLeapYear(y) == (y % 4 = 0) /\ ((y % 100 # 0) \/ (y % 400 = 0))

YearFromDay(day) ==
  LET y0 == 1970 + (day \div DaysPer400Years) * 400
                 + ((day % DaysPer400Years) * 400) \div DaysPer400Years
  IN CHOOSE y \in (y0 - 2)..(y0 + 2) :
       DayFromYear(y) <= day /\ day < DayFromYear(y + 1)

\* days of the year before month m (1..13) starts
MonthStart(m, leap) ==
  <<0, 31, 59, 90, 120, 151, 181, 212, 243, 273, 304, 334, 365>>[m]
    + (IF leap /\ m > 2 THEN 1 ELSE 0)

DaysInMonth(y, m) == MonthStart(m + 1, InLeapYear(y)) - MonthStart(m, InLeapYear(y))

MonthFromDay(day) ==
  LET y == YearFromDay(day)
      diy == day - DayFromYear(y)
  IN CHOOSE m \in 1..12 :
       MonthStart(m, InLeapYear(y)) <= diy /\ diy < MonthStart(m + 1, InLeapYear(y))

DateFromDay(day) ==
  LET y == YearFromDay(day)
  IN day - DayFromYear(y) - MonthStart(MonthFromDay(day), InLeapYear(y)) + 1

\* MakeDay(year, month, date): month in 1..12, date may run past the month
MakeDay(y, m, d) == DayFromYear(y) + MonthStart(m, InLeapYear(y)) + d - 1

----------------------------------------------------------------------------
(* Strings. *)

Digits == "0123456789"

\* the i-th character (1-based), "" outside the string
At(s, i) == IF i >= 1 /\ i <= Len(s) THEN SubSeq(s, i, i) ELSE ""

DigitChar(n) == SubSeq(Digits, n + 1, n + 1)

\* the value of a digit character, -1 for any other character
DigitValue(c) ==
  IF \E n \in 0..9 : DigitChar(n) = c
  THEN CHOOSE n \in 0..9 : DigitChar(n) = c
  ELSE -1

RECURSIVE Pad(_, _)
\* n >= 0 in decimal, zero-padded to w digits
Pad(n, w) == IF w = 0 THEN "" ELSE Pad(n \div 10, w - 1) \o DigitChar(n % 10)

RECURSIVE Num(_, _, _)
\* the number written by the n digits of s from position i, -1 if they are
\* not all digits
Num(s, i, n) ==
  IF n = 0 THEN 0
  ELSE LET hi == Num(s, i, n - 1)
           lo == DigitValue(At(s, i + n - 1))
       IN IF hi = -1 \/ lo = -1 THEN -1 ELSE hi * 10 + lo

RECURSIVE IndexFrom(_, _, _)
IndexFrom(s, c, i) ==
  IF i > Len(s) THEN -1
  ELSE IF SubSeq(s, i, i) = c THEN i - 1
  ELSE IndexFrom(s, c, i + 1)

\* String.prototype.indexOf with a one-character needle: 0-based, -1 if absent
indexOf(s, c) == IndexFrom(s, c, 1)

RECURSIVE split(_, _)
\* String.prototype.split with a one-character separator
split(s, sep) ==
  LET i == indexOf(s, sep)
  IN IF i = -1 THEN <<s>>
     ELSE <<SubSeq(s, 1, i)>> \o split(SubSeq(s, i + 2, Len(s)), sep)

RECURSIVE join(_, _)
\* Array.prototype.join
join(parts, sep) ==
  IF Len(parts) = 0 THEN ""
  ELSE IF Len(parts) = 1 THEN parts[1]
  ELSE parts[1] \o sep \o join(Tail(parts), sep)

\* s without its last n characters
ButLast(s, n) == SubSeq(s, 1, Len(s) - n)

\* String.prototype.replace with one-character strings: the first match only
ReplaceFirst(s, a, b) ==
  LET i == indexOf(s, a)
  IN IF i = -1 THEN s ELSE SubSeq(s, 1, i) \o b \o SubSeq(s, i + 2, Len(s))

----------------------------------------------------------------------------
(* Date.prototype.toISOString of a valid Date. *)

YearString(y) ==
  IF y >= 0 /\ y <= 9999 THEN Pad(y, 4)
  ELSE IF y < 0 THEN "-" \o Pad(-y, 6)
  ELSE "+" \o Pad(y, 6)

toISOString(date) ==
  LET y == YearFromDay(date.day)
      t == date.ms
  IN YearString(y) \o "-" \o Pad(MonthFromDay(date.day), 2) \o "-"
       \o Pad(DateFromDay(date.day), 2) \o "T"
       \o Pad(t \div msPerHour, 2) \o ":"
       \o Pad((t % msPerHour) \div msPerMinute, 2) \o ":"
       \o Pad((t % msPerMinute) \div msPerSecond, 2) \o "."
       \o Pad(t % msPerSecond, 3) \o "Z"

----------------------------------------------------------------------------
(* new Date(string): Date.parse of the ECMAScript date-time string format, *)
(*   YYYY[-MM[-DD]][THH:mm[:ss[.sss]][Z|+HH:mm|-HH:mm]]                    *)
(* where YYYY may be an expanded year, a sign and six digits.              *)

\* the reader before the first character of s
Start(s) ==
  [s |-> s, pos |-> 1, shape |-> TRUE, year |-> 0, minusZero |-> FALSE,
   hasMonth |-> FALSE, month |-> 1, date |-> 1,
   hasTime |-> FALSE, hasSec |-> FALSE,
   hour |-> 0, minute |-> 0, second |-> 0, milli |-> 0,
   zone |-> "none", offset |-> 0, offHour |-> 0, offMin |-> 0]

\* YYYY, or a sign and YYYYYY
ReadYear(c) ==
  LET sign == At(c.s, 1)
      n == IF sign = "+" \/ sign = "-" THEN Num(c.s, 2, 6) ELSE Num(c.s, 1, 4)
  IN [c EXCEPT !.pos = IF sign = "+" \/ sign = "-" THEN 8 ELSE 5,
               !.shape = n # -1,
               !.year = IF sign = "-" THEN -n ELSE n,
               !.minusZero = (sign = "-" /\ n = 0)]

\* -MM
ReadMonth(c) ==
  IF At(c.s, c.pos) = "-"
  THEN LET n == Num(c.s, c.pos + 1, 2)
       IN [c EXCEPT !.pos = c.pos + 3, !.shape = c.shape /\ n # -1,
                    !.hasMonth = TRUE, !.month = n]
  ELSE c

\* -DD
ReadDay(c) ==
  IF c.hasMonth /\ At(c.s, c.pos) = "-"
  THEN LET n == Num(c.s, c.pos + 1, 2)
       IN [c EXCEPT !.pos = c.pos + 3, !.shape = c.shape /\ n # -1, !.date = n]
  ELSE c

\* THH:mm
ReadTime(c) ==
  IF At(c.s, c.pos) = "T"
  THEN LET h == Num(c.s, c.pos + 1, 2)
           m == Num(c.s, c.pos + 4, 2)
       IN [c EXCEPT !.pos = c.pos + 6,
                    !.shape = c.shape /\ h # -1 /\ m # -1 /\ At(c.s, c.pos + 3) = ":",
                    !.hasTime = TRUE, !.hour = h, !.minute = m]
  ELSE c

\* :ss
ReadSeconds(c) ==
  IF c.hasTime /\ At(c.s, c.pos) = ":"
  THEN LET n == Num(c.s, c.pos + 1, 2)
       IN [c EXCEPT !.pos = c.pos + 3, !.shape = c.shape /\ n # -1,
                    !.hasSec = TRUE, !.second = n]
  ELSE c

\* .sss
ReadMillis(c) ==
  IF c.hasSec /\ At(c.s, c.pos) = "."
  THEN LET n == Num(c.s, c.pos + 1, 3)
       IN [c EXCEPT !.pos = c.pos + 4, !.shape = c.shape /\ n # -1, !.milli = n]
  ELSE c

\* Z, +HH:mm or -HH:mm after a time
ReadZone(c) ==
  IF c.hasTime /\ At(c.s, c.pos) = "Z"
  THEN [c EXCEPT !.pos = c.pos + 1, !.zone = "utc"]
  ELSE IF c.hasTime /\ (At(c.s, c.pos) = "+" \/ At(c.s, c.pos) = "-")
  THEN LET h == Num(c.s, c.pos + 1, 2)
           m == Num(c.s, c.pos + 4, 2)
       IN [c EXCEPT !.pos = c.pos + 6,
                    !.shape = c.shape /\ h # -1 /\ m # -1 /\ At(c.s, c.pos + 3) = ":",
                    !.zone = "offset", !.offHour = h, !.offMin = m,
                    !.offset = (IF At(c.s, c.pos) = "-" THEN -1 ELSE 1) * (h * 60 + m)]
  ELSE c

\* the fields of s read as the date-time string format; shape says whether s
\* is an instance of the format, end to end
Fields(s) ==
  LET c == ReadZone(ReadMillis(ReadSeconds(ReadTime(ReadDay(ReadMonth(
             ReadYear(Start(s))))))))
  IN [c EXCEPT !.shape = c.shape /\ c.pos = Len(s) + 1]

\* the element values the format allows
LegalFields(f) ==
  /\ ~f.minusZero
  /\ f.month >= 1 /\ f.month <= 12
  /\ f.date >= 1 /\ f.date <= 31
  /\ (rollover \/ f.date <= DaysInMonth(f.year, f.month))
  /\ f.hour <= 24 /\ f.minute <= 59 /\ f.second <= 59
  /\ (f.hour = 24 => f.minute = 0 /\ f.second = 0 /\ f.milli = 0)
  /\ f.offHour <= 23 /\ f.offMin <= 59

\* the instant of legal fields: local time where no offset is written with a
\* time, UTC otherwise
FieldsToDate(f) ==
  LET east == IF f.hasTime /\ f.zone = "none" THEN tz ELSE f.offset
      time == f.hour * msPerHour + f.minute * msPerMinute
                + f.second * msPerSecond + f.milli - east * msPerMinute
  IN TimeClip(MakeDay(f.year, f.month, f.date) + (time \div msPerDay),
              time % msPerDay)

\* new Date(s).  Text that is no instance of the format goes to the host's
\* implementation-defined fallback; an instance with an illegal element is NaN
DateParse(s) ==
  LET f == Fields(s)
  IN IF ~f.shape THEN legacy
     ELSE IF ~LegalFields(f) THEN InvalidDate
     ELSE FieldsToDate(f)

----------------------------------------------------------------------------
(* Effects, and what a call did on the way to its Effect. *)

succeed(v) == [tag |-> "succeed", value |-> v]
fail(type, message) == [tag |-> "fail", type |-> type, message |-> message]
throw(message) == [tag |-> "throw", message |-> message]

\* a call's Effect together with the native calls made to compute it
Run(effect, fd, c, s, f) ==
  [effect |-> effect, formattedDate |-> fd, constructed |-> c,
   serialized |-> s, formatterRan |-> f]

----------------------------------------------------------------------------
(* The module's functions. *)

\* mutant: the zone marker is lost when the parts are joined
JoinWithSpace_DropZone(parts) == ButLast(join(parts, " "), 1)

\* mutant: the parts are joined with the separator they were split on
JoinWithSpace_KeepT(parts) == join(parts, "T")

JoinWithSpace(parts) == join(parts, " ")

\* mutant: no validity check before the date is serialized
dateToRFC3339Parts_NoGuard(date) ==
  Run(succeed(split(toISOString(date), "T")), "", FALSE, TRUE, FALSE)

\* mutant: the serialization is split on the wrong character
dateToRFC3339Parts_SplitOnColon(date) ==
  IF isNaNTime(date)
  THEN Run(fail("dateInvalid", "The provided date is invalid."),
           "", FALSE, FALSE, FALSE)
  ELSE LET byT == split(toISOString(date), ":")
           parts == IF Len(byT) # 2 THEN split(toISOString(date), " ") ELSE byT
       IN IF Len(parts) # 2
          THEN Run(throw("Expected date to ISO string to contain a 'T' or ' ' separator."),
                   "", FALSE, TRUE, FALSE)
          ELSE Run(succeed(parts), "", FALSE, TRUE, FALSE)

dateToRFC3339Parts(date) ==
  IF isNaNTime(date)
  THEN Run(fail("dateInvalid", "The provided date is invalid."),
           "", FALSE, FALSE, FALSE)
  ELSE LET byT == split(toISOString(date), "T")
           parts == IF Len(byT) # 2 THEN split(toISOString(date), " ") ELSE byT
       IN IF Len(parts) # 2
          THEN Run(throw("Expected date to ISO string to contain a 'T' or ' ' separator."),
                   "", FALSE, TRUE, FALSE)
          ELSE Run(succeed(parts), "", FALSE, TRUE, FALSE)

dateToRFC3339(date) ==
  LET r == dateToRFC3339Parts(date)
  \* Effect.map: a failure (or a throw on the way) passes through unchanged
  IN Run(IF r.effect.tag = "succeed" THEN succeed(JoinWithSpace(r.effect.value))
                                     ELSE r.effect,
         "", FALSE, r.serialized, TRUE)

\* mutant: the string is handed on as it came
FormatForDate_NoRewrite(dateString) == dateString

\* mutant: String.prototype.replace, which rewrites the first space only
FormatForDate_FirstSpace(dateString) ==
  IF indexOf(dateString, " ") # -1 /\ indexOf(dateString, "T") = -1
  THEN ReplaceFirst(dateString, " ", "T")
  ELSE dateString

\* mutant: the rewrite does not look for a 'T'
FormatForDate_AnySpace(dateString) ==
  IF indexOf(dateString, " ") # -1
  THEN join(split(dateString, " "), "T")
  ELSE dateString

\* the string rfc3339ToDate hands to the Date constructor
FormatForDate(dateString) ==
  IF indexOf(dateString, " ") # -1 /\ indexOf(dateString, "T") = -1
  THEN join(split(dateString, " "), "T")
  ELSE dateString

\* mutant: the message quotes the rewritten string
rfc3339ToDate_QuotesRewritten(dateString) ==
  IF dateString = ""
  THEN Run(fail("dateInvalidFormat", "The provided date string is empty."),
           "", FALSE, FALSE, FALSE)
  ELSE LET formatted == FormatForDate(dateString)
           date == DateParse(formatted)
       IN IF isNaNTime(date)
          THEN Run(fail("dateInvalidFormat",
                        "The provided date string \"" \o formatted \o "\" is invalid."),
                   formatted, TRUE, FALSE, FALSE)
          ELSE Run(succeed(date), formatted, TRUE, FALSE, FALSE)

\* mutant: the constructed date is returned without the validity check
rfc3339ToDate_NoValidityCheck(dateString) ==
  IF dateString = ""
  THEN Run(fail("dateInvalidFormat", "The provided date string is empty."),
           "", FALSE, FALSE, FALSE)
  ELSE Run(succeed(DateParse(FormatForDate(dateString))),
           FormatForDate(dateString), TRUE, FALSE, FALSE)

rfc3339ToDate(dateString) ==
  IF dateString = ""
  THEN Run(fail("dateInvalidFormat", "The provided date string is empty."),
           "", FALSE, FALSE, FALSE)
  ELSE LET formatted == FormatForDate(dateString)
           date == DateParse(formatted)
       IN IF isNaNTime(date)
          THEN Run(fail("dateInvalidFormat",
                        "The provided date string \"" \o dateString \o "\" is invalid."),
                   formatted, TRUE, FALSE, FALSE)
          ELSE Run(succeed(date), formatted, TRUE, FALSE, FALSE)

\* pipe(rfc3339ToDate(s), Effect.flatMap(dateToRFC3339))
assertRFC3339Date(dateString) ==
  LET p == rfc3339ToDate(dateString)
  IN IF p.effect.tag = "succeed"
     THEN LET f == dateToRFC3339(p.effect.value)
          IN Run(f.effect, p.formattedDate, p.constructed, f.serialized, f.formatterRan)
     ELSE p

----------------------------------------------------------------------------
(* Inputs. *)

Anchors ==
  { MakeDay(1970, 1, 1), MakeDay(2025, 3, 28), MakeDay(2024, 2, 29),
    MakeDay(9999, 12, 31), MakeDay(0, 1, 1), MaxDay, -MaxDay }

DayInputs == { a + k : a \in Anchors, k \in (-DayWindow)..DayWindow }

\* 12:30:45.000
HalfPastNoon == 45045000

MsInputs ==
  UNION { {k, HalfPastNoon + k, msPerDay - 1 - k} : k \in 0..MsWindow }

\* every Date a caller can hold: the invalid one and the instants in range
DateInputs == {InvalidDate} \cup { TimeClip(d, m) : d \in DayInputs, m \in MsInputs }

ValidDateInputs == { d \in DateInputs : d.valid }

\* spellings of an instant around its serialization
Spellings(d) ==
  LET iso == toISOString(d)
      sp  == join(split(iso, "T"), " ")
  IN { iso, sp,
       split(iso, "T")[1],
       ButLast(iso, 1), ButLast(sp, 1),
       ButLast(sp, 5) \o "Z",
       ButLast(iso, 8),
       ButLast(sp, 1) \o "+02:00", ButLast(iso, 1) \o "-05:30",
       ButLast(sp, 1) \o " Z", sp \o " ", " " \o iso }

OddStrings ==
  { "", " ", "T", "not-a-date", "not a date",
    "2025", "2025-03", "2025T12:30", "2025 12:30Z",
    "2025-13-01 00:00:00.000Z", "2025-00-10T00:00:00.000Z",
    "2025-02-29 12:00:00.000Z", "2025-02-30T12:00:00.000Z",
    "2025-04-31 23:59:59.999Z", "2025-03-32 00:00:00.000Z",
    "2025-03-28 24:00:00.000Z", "2025-03-28T24:00:00.001Z",
    "2025-03-28 25:00:00.000Z", "2025-03-28 12:60:00.000Z",
    "2025-03-28  12:30:45.000Z", "2025-03-28 12:30:45.000 +02:00",
    "2025-03-28 12:30:45.00Z", "2025-03-28 12:30:45.0000Z",
    "2025-03-28t12:30:45.000z", "2025-03-28 12:30:45.000+24:00",
    "-000000-01-01 00:00:00.000Z", "+002025-03-28 12:30:45.000Z",
    "+275760-09-13 00:00:00.001Z", "+275760-09-12 23:59:59.999-00:01",
    "-271821-04-19 23:59:59.999Z", "+999999-12-31T23:59:59.999Z",
    "Fri, 28 Mar 2025 12:30:45 GMT", "28 Mar 2025 12:30:45 Z",
    "Tue Mar 28 2025", "20250328 123045Z" }

StringInputs == OddStrings \cup UNION { Spellings(d) : d \in ValidDateInputs }

TimeZones == {-330, 0, 120}

LegacyOutcomes == {InvalidDate, TimeClip(MakeDay(2025, 3, 28), HalfPastNoon)}

----------------------------------------------------------------------------
(* The state machine.  The functions are pure and keep nothing between     *)
(* calls, so a behaviour is one call: some function, applied to some input *)
(* on some host.                                                           *)

Init ==
  /\ tz \in TimeZones
  /\ rollover \in BOOLEAN
  /\ legacy \in LegacyOutcomes
  /\ op = "none" /\ argDate = InvalidDate /\ argString = ""
  /\ result = [tag |-> "none"]
  /\ formattedDate = "" /\ constructed = FALSE
  /\ serialized = FALSE /\ formatterRan = FALSE

Returns(r) ==
  /\ result' = r.effect
  /\ formattedDate' = r.formattedDate
  /\ constructed' = r.constructed
  /\ serialized' = r.serialized
  /\ formatterRan' = r.formatterRan
  /\ UNCHANGED env

CallDateToRFC3339Parts ==
  /\ op = "none"
  /\ \E d \in DateInputs :
       /\ op' = "dateToRFC3339Parts" /\ argDate' = d /\ argString' = ""
       /\ Returns(dateToRFC3339Parts(d))

CallDateToRFC3339 ==
  /\ op = "none"
  /\ \E d \in DateInputs :
       /\ op' = "dateToRFC3339" /\ argDate' = d /\ argString' = ""
       /\ Returns(dateToRFC3339(d))

CallRfc3339ToDate ==
  /\ op = "none"
  /\ \E s \in StringInputs :
       /\ op' = "rfc3339ToDate" /\ argDate' = InvalidDate /\ argString' = s
       /\ Returns(rfc3339ToDate(s))

CallAssertRFC3339Date ==
  /\ op = "none"
  /\ \E s \in StringInputs :
       /\ op' = "assertRFC3339Date" /\ argDate' = InvalidDate /\ argString' = s
       /\ Returns(assertRFC3339Date(s))

Next ==
  \/ CallDateToRFC3339Parts
  \/ CallDateToRFC3339
  \/ CallRfc3339ToDate
  \/ CallAssertRFC3339Date

Spec == Init /\ [][Next]_vars
----------------------------------------------------------------------------
(* Properties. *)

hasSpace(s) == indexOf(s, " ") # -1
hasT(s) == indexOf(s, "T") # -1

AllDigits(s, i, n) == \A k \in i..(i + n - 1) : DigitValue(At(s, k)) # -1

\* YYYY-MM-DD HH:MM:SS.sssZ
MatchesPattern(s) ==
  /\ Len(s) = 24
  /\ AllDigits(s, 1, 4) /\ At(s, 5) = "-" /\ AllDigits(s, 6, 2)
  /\ At(s, 8) = "-" /\ AllDigits(s, 9, 2) /\ At(s, 11) = " "
  /\ AllDigits(s, 12, 2) /\ At(s, 14) = ":" /\ AllDigits(s, 15, 2)
  /\ At(s, 17) = ":" /\ AllDigits(s, 18, 2) /\ At(s, 20) = "."
  /\ AllDigits(s, 21, 3) /\ At(s, 24) = "Z"

\* the strings the formatter writes for the instants drawn as inputs
CanonicalStrings == { dateToRFC3339(d).effect.value : d \in ValidDateInputs }

\* C1: for every valid date, dateToRFC3339 succeeds with a string of the
\* pattern YYYY-MM-DD HH:MM:SS.sssZ, the year being four digits whatever the
\* year of the instant is.
C1_MatchesPattern ==
  (op = "dateToRFC3339" /\ argDate.valid) =>
    (result.tag = "succeed" /\ MatchesPattern(result.value))

\* C2: round trip: for every valid date d, rfc3339ToDate applied to the
\* string dateToRFC3339(d) succeeds and yields the instant of d again.
C2_RoundTrip ==
  (op = "dateToRFC3339" /\ argDate.valid) =>
    /\ result.tag = "succeed"
    /\ rfc3339ToDate(result.value).effect = succeed(argDate)

C2_Witness ==
  /\ op = "dateToRFC3339" /\ argDate.valid
  /\ YearFromDay(argDate.day) > 9999 /\ argDate.ms = msPerDay - 1
  /\ result.tag = "succeed"
  /\ rfc3339ToDate(result.value).effect = succeed(argDate)

\* C3: idempotence: for every string s that rfc3339ToDate accepts,
\* assertRFC3339Date(s) succeeds with a string that rfc3339ToDate accepts too,
\* and assertRFC3339Date of that string is that string again.
C3_Idempotent ==
  (op = "rfc3339ToDate" /\ result.tag = "succeed") =>
    LET once == assertRFC3339Date(argString).effect
    IN /\ once.tag = "succeed"
       /\ rfc3339ToDate(once.value).effect.tag = "succeed"
       /\ assertRFC3339Date(once.value).effect = once

C3_Witness ==
  /\ op = "rfc3339ToDate" /\ result.tag = "succeed"
  /\ tz = 120 /\ argString = "2025-03-28T12:30"
  /\ assertRFC3339Date(argString).effect.value = "2025-03-28 10:30:00.000Z"
  /\ assertRFC3339Date(assertRFC3339Date(argString).effect.value).effect
       = assertRFC3339Date(argString).effect

\* C4: for every accepted string s, assertRFC3339Date(s) is the canonical
\* space-separated string (one space, no 'T') that reads back as the instant
\* s denotes; the 'T' spelling and the space spelling of one timestamp give
\* the same result; and a string that is canonical already comes back
\* unchanged.
C4_Canonical ==
  (op = "assertRFC3339Date" /\ result.tag = "succeed") =>
    /\ ~hasT(result.value) /\ Len(split(result.value, " ")) = 2
    /\ rfc3339ToDate(result.value).effect = rfc3339ToDate(argString).effect
    /\ (Len(split(argString, "T")) = 2 /\ ~hasSpace(argString)) =>
         assertRFC3339Date(join(split(argString, "T"), " ")).effect = result
    /\ (Len(split(argString, " ")) = 2 /\ ~hasT(argString)) =>
         assertRFC3339Date(join(split(argString, " "), "T")).effect = result
    /\ (argString \in CanonicalStrings) => result.value = argString

C4_Witness ==
  /\ op = "assertRFC3339Date" /\ result.tag = "succeed"
  /\ argString = "2025-03-28T12:30:45.000Z"
  /\ result.value = "2025-03-28 12:30:45.000Z"
  /\ result.value \in CanonicalStrings
  /\ assertRFC3339Date(result.value).effect = result

\* C5 as claimed: when the input has a space and no 'T', the string handed to
\* the Date constructor is the input with only its first space replaced
\* by 'T'.
C5_FirstSpaceOnly ==
  (op = "rfc3339ToDate" /\ hasSpace(argString) /\ ~hasT(argString)) =>
    (constructed /\ formattedDate = ReplaceFirst(argString, " ", "T"))

\* C5 as amended: when the input has a space and no 'T', the string handed to
\* the Date constructor is the input with every one of its spaces replaced
\* by 'T'.
C5_EverySpace ==
  (op = "rfc3339ToDate" /\ hasSpace(argString) /\ ~hasT(argString)) =>
    /\ constructed
    /\ Len(formattedDate) = Len(argString)
    /\ \A i \in 1..Len(argString) :
         At(formattedDate, i) = IF At(argString, i) = " " THEN "T"
                                                         ELSE At(argString, i)

C5_Witness ==
  /\ op = "rfc3339ToDate" /\ ~hasT(argString)
  /\ Len(split(argString, " ")) > 2
  /\ constructed /\ ~hasSpace(formattedDate)
  /\ Len(split(formattedDate, "T")) = Len(split(argString, " "))

\* C6: the rewrite fires only for an input with a space and no 'T': an input
\* with a 'T' (spaces or not) and an input with neither reach the Date
\* constructor unchanged.
C6_RewriteOnlyWithoutT ==
  (op = "rfc3339ToDate" /\ argString # "") =>
    /\ constructed
    /\ (hasT(argString) \/ ~hasSpace(argString)) => formattedDate = argString
    /\ (formattedDate # argString) => (hasSpace(argString) /\ ~hasT(argString))

C6_Witness ==
  /\ op = "rfc3339ToDate" /\ hasT(argString) /\ hasSpace(argString)
  /\ constructed /\ formattedDate = argString

\* C7: rfc3339ToDate ends in a success that carries a valid instant or in a
\* dateInvalidFormat failure: "The provided date string is empty." for the
\* empty string, and for a string whose rewritten form constructs an invalid
\* date the message that quotes the string as it was given.
C7_FormatErrors ==
  (op = "rfc3339ToDate") =>
    /\ result.tag \in {"succeed", "fail"}
    /\ (result.tag = "fail") => result.type = "dateInvalidFormat"
    /\ (argString = "") =>
         /\ result = fail("dateInvalidFormat", "The provided date string is empty.")
         /\ ~constructed
    /\ (argString # "" /\ isNaNTime(DateParse(formattedDate))) =>
         result = fail("dateInvalidFormat",
                       "The provided date string \"" \o argString \o "\" is invalid.")
    /\ (result.tag = "succeed") =>
         (result.value.valid /\ result.value = DateParse(formattedDate))

C7_Witness ==
  /\ op = "rfc3339ToDate" /\ argString = "2025-13-01 00:00:00.000Z"
  /\ formattedDate = "2025-13-01T00:00:00.000Z"
  /\ result = fail("dateInvalidFormat",
                   "The provided date string \"2025-13-01 00:00:00.000Z\" is invalid.")

\* C8: for the invalid date, dateToRFC3339Parts fails with dateInvalid, "The
\* provided date is invalid.", before anything is serialized, and
\* dateToRFC3339 returns that very failure, never a string.
C8_InvalidDate ==
  (op \in {"dateToRFC3339Parts", "dateToRFC3339"} /\ isNaNTime(argDate)) =>
    /\ result = fail("dateInvalid", "The provided date is invalid.")
    /\ ~serialized
    /\ result = dateToRFC3339Parts(argDate).effect

C8_Witness ==
  /\ op = "dateToRFC3339" /\ isNaNTime(argDate) /\ formatterRan
  /\ result.tag = "fail" /\ result.type = "dateInvalid"

\* C9: assertRFC3339Date runs the parser first and the formatter only after
\* the parser succeeded: a parser failure comes back unchanged with the
\* formatter never called, and no string makes it fail with dateInvalid.
C9_ShortCircuit ==
  (op = "assertRFC3339Date") =>
    LET parsed == rfc3339ToDate(argString).effect
    IN /\ (parsed.tag = "fail") =>
            (result = parsed /\ ~formatterRan /\ ~serialized)
       /\ (parsed.tag = "succeed") => (formatterRan /\ result.tag = "succeed")
       /\ (result.tag = "fail") =>
            (result.type = "dateInvalidFormat" /\ result.type # "dateInvalid")

C9_Witness ==
  /\ op = "assertRFC3339Date" /\ constructed /\ ~formatterRan
  /\ result.tag = "fail" /\ result.type = "dateInvalidFormat"

\* C10: for every valid date, dateToRFC3339Parts returns exactly two segments,
\* the calendar date and the time with fraction and zone, whose join with 'T'
\* is the date's serialization; nothing the module does throws, and every
\* failure is a value of kind dateInvalid or dateInvalidFormat.
C10_TwoPartsNoThrow ==
  /\ (op # "none") =>
       /\ result.tag \in {"succeed", "fail"}
       /\ (result.tag = "fail") => result.type \in {"dateInvalid", "dateInvalidFormat"}
  /\ (op = "dateToRFC3339Parts" /\ argDate.valid) =>
       /\ result.tag = "succeed" /\ serialized
       /\ Len(result.value) = 2
       /\ join(result.value, "T") = toISOString(argDate)
       /\ indexOf(result.value[1], ":") = -1
       /\ Len(split(result.value[2], ":")) = 3
       /\ At(result.value[2], Len(result.value[2])) = "Z"

C10_Witness ==
  /\ op = "dateToRFC3339Parts" /\ argDate.valid
  /\ YearFromDay(argDate.day) < 0
  /\ result.tag = "succeed" /\ Len(result.value) = 2
  /\ At(result.value[1], 1) = "-"
====
